---- MODULE Spec2Model ----
(***************************************************************************)
(* Model of the movies canister (src/src/index.ts): three StableBTreeMaps  *)
(* (movieStorage, userStorage, userWatchlistStorage), the module-level     *)
(* currentUser slot, and one action per exported function.                 *)
(*                                                                         *)
(* Every function of the source is an operator of the same name: it takes  *)
(* the canister state s it runs in (a record of the three maps and         *)
(* currentUser), its arguments and the values it obtains from uuidv4 and   *)
(* ic.time, and yields a record of the Result it returns (res) and the     *)
(* state it leaves (state).  The action of the same name prefixed by Call  *)
(* runs it on the current state.                                           *)
(*                                                                         *)
(* Strings that are identifiers (uuidv4 results and the id arguments of    *)
(* the canister methods) are modelled by numbers whose order is the key    *)
(* order of the strings; BogusId is a string uuidv4 never returns.  An     *)
(* Opt<T> value is a sequence: << >> is Opt.None, <<v>> is Opt.Some(v);    *)
(* the nullable currentUser is modelled the same way.                      *)
(***************************************************************************)
EXTENDS Integers, Sequences, FiniteSets, TLC

\* ---------------------------------------------------------------- bounds
MaxUuid == 4        \* uuidv4 is called at most MaxUuid times
MaxUserUuid == 4    \* strings uuidv4 can return for user and watchlist ids
MaxMovieUuid == 1   \* strings uuidv4 can return for movie ids
MaxWatchlist == 2   \* no id is appended to a watchlist of MaxWatchlist ids
MaxCatalog == 3     \* movies createMovie stores when only the movie functions are called
MaxTime == 2        \* ic.time() ranges over 1..MaxTime

\* uuidv4 never returns the same string twice.  An id is modelled by its rank
\* among the keys of the maps it can be a key of: user and watchlist ids are
\* keys of userStorage and userWatchlistStorage, movie ids of movieStorage.
UserUuids == 1..MaxUserUuid
MovieUuids == (MaxUserUuid + 1)..(MaxUserUuid + MaxMovieUuid)
BogusId == MaxUserUuid + MaxMovieUuid + 1

\* the strings uuidv4 returns for movie ids when only the movie functions are called
CatalogUuids == (BogusId + 1)..(BogusId + MaxCatalog)

\* ---------------------------------------------------------------- inputs
Emails == {"a@x", "b@x"}
Passwords == {"pw", "pw2"}

UserPayloads ==
    { [name |-> "John", email |-> "a@x", password |-> "pw"],
      [name |-> "Jane", email |-> "b@x", password |-> "pw2"],
      [name |-> "Jane", email |-> "", password |-> "pw"] }

MoviePayloads ==
    { [title |-> "A", description |-> "d", genre |-> "g", imageURL |-> "i", coverImageURL |-> "c"],
      [title |-> "B", description |-> "d", genre |-> "g", imageURL |-> "i", coverImageURL |-> "c"],
      [title |-> "", description |-> "d", genre |-> "g", imageURL |-> "i", coverImageURL |-> "c"] }

Titles == {p.title : p \in MoviePayloads}

VARIABLES
    movieStorage,          \* key -> Movie
    userStorage,           \* key -> User
    userWatchlistStorage,  \* key -> WatchList
    currentUser,           \* << >> (null) or <<User>>
    issued,                \* the strings uuidv4 has returned so far
    now                    \* the value ic.time() returns

vars == <<movieStorage, userStorage, userWatchlistStorage, currentUser, issued, now>>

\* the canister state as one value
State ==
    [movieStorage |-> movieStorage, userStorage |-> userStorage,
     userWatchlistStorage |-> userWatchlistStorage, currentUser |-> currentUser]

\* ------------------------------------------------- StableBTreeMap helpers
EmptyMap == [k \in {} |-> 0]

\* StableBTreeMap.get(key): Opt<Value>
Get(map, k) == IF k \in DOMAIN map THEN <<map[k]>> ELSE << >>

\* StableBTreeMap.insert(key, value)
Insert(map, k, v) == [x \in DOMAIN map \cup {k} |-> IF x = k THEN v ELSE map[x]]

\* StableBTreeMap.remove(key)
Remove(map, k) == [x \in DOMAIN map \ {k} |-> map[x]]

RECURSIVE KeysInOrder(_)
KeysInOrder(S) ==
    IF S = {} THEN << >>
    ELSE LET m == CHOOSE x \in S : \A y \in S : x <= y
         IN <<m>> \o KeysInOrder(S \ {m})

\* StableBTreeMap.values(): the values in ascending key order
Values(map) ==
    LET ks == KeysInOrder(DOMAIN map)
    IN [i \in 1..Len(ks) |-> map[ks[i]]]

\* Array.prototype.filter is SelectSeq.

\* includes, had it found nothing
Includes_Never(seq, x) == FALSE

\* Array.prototype.includes
Includes(seq, x) == \E i \in 1..Len(seq) : seq[i] = x

\* JavaScript truthiness of a string: only "" is falsy
Falsy(s) == s = ""

\* JavaScript truthiness of the Opt object ({Some: v} or {None: null}) that
\* StableBTreeMap.get returns: an object is truthy whatever it holds
OptFalsy(opt) == FALSE

\* ------------------------------------------------------------ results
Ok(val) == [tag |-> "Ok", val |-> val]
Err(msg) == [tag |-> "Err", val |-> msg]

\* what a function leaves behind: its Result and the state
Return(res, s) == [res |-> res, state |-> s]

\* ------------------------------------------------------------ users
\* getUserByEmail, had it compared the name with the email
getUserByEmail_ByName(s, email) ==
    SelectSeq(Values(s.userStorage), LAMBDA user : user.name = email)

getUserByEmail(s, email) ==
    SelectSeq(Values(s.userStorage), LAMBDA user : user.email = email)

\* createUser, had it stored the watchlist before it looked for the email
createUser_WatchlistFirst(s, payload, uid, wid, t) ==
    IF Falsy(payload.name) \/ Falsy(payload.email) \/ Falsy(payload.password)
    THEN Return(Err("Invalid payload"), s)
    ELSE LET stored == [s EXCEPT !.userWatchlistStorage =
                                     Insert(@, uid, [id |-> wid, movies |-> << >>])]
         IN IF getUserByEmail(s, payload.email) # << >>
            THEN Return(Err("A user with email already exists!"), stored)
            ELSE LET newUser == [id |-> uid, name |-> payload.name, email |-> payload.email,
                                 password |-> payload.password, createdAt |-> t,
                                 updateAt |-> << >>]
                 IN Return(Ok("A user with email successfully created!"),
                           [stored EXCEPT !.userStorage = Insert(@, newUser.id, newUser)])

\* createUser, had it stored the watchlist under the watchlist's id
createUser_WatchlistKey(s, payload, uid, wid, t) ==
    IF Falsy(payload.name) \/ Falsy(payload.email) \/ Falsy(payload.password)
    THEN Return(Err("Invalid payload"), s)
    ELSE IF getUserByEmail(s, payload.email) # << >>
    THEN Return(Err("A user with email already exists!"), s)
    ELSE LET newUser == [id |-> uid, name |-> payload.name, email |-> payload.email,
                         password |-> payload.password, createdAt |-> t, updateAt |-> << >>]
         IN Return(Ok("A user with email successfully created!"),
                   [s EXCEPT !.userStorage = Insert(@, newUser.id, newUser),
                             !.userWatchlistStorage =
                                 Insert(@, wid, [id |-> wid, movies |-> << >>])])

\* createUser, had it not looked for the email
createUser_NoConflictCheck(s, payload, uid, wid, t) ==
    IF Falsy(payload.name) \/ Falsy(payload.email) \/ Falsy(payload.password)
    THEN Return(Err("Invalid payload"), s)
    ELSE LET newUser == [id |-> uid, name |-> payload.name, email |-> payload.email,
                         password |-> payload.password, createdAt |-> t, updateAt |-> << >>]
         IN Return(Ok("A user with email successfully created!"),
                   [s EXCEPT !.userStorage = Insert(@, newUser.id, newUser),
                             !.userWatchlistStorage =
                                 Insert(@, newUser.id, [id |-> wid, movies |-> << >>])])

\* uid, wid: the results of the two uuidv4() calls; t: ic.time()
createUser(s, payload, uid, wid, t) ==
    IF Falsy(payload.name) \/ Falsy(payload.email) \/ Falsy(payload.password)
    THEN Return(Err("Invalid payload"), s)
    ELSE IF getUserByEmail(s, payload.email) # << >>
    THEN Return(Err("A user with email already exists!"), s)
    ELSE LET newUser == [id |-> uid, name |-> payload.name, email |-> payload.email,
                         password |-> payload.password, createdAt |-> t, updateAt |-> << >>]
         IN Return(Ok("A user with email successfully created!"),
                   [s EXCEPT !.userStorage = Insert(@, newUser.id, newUser),
                             !.userWatchlistStorage =
                                 Insert(@, newUser.id, [id |-> wid, movies |-> << >>])])

\* loginUser, had it set currentUser before it compared the passwords
loginUser_SessionBeforePassword(s, email, password) ==
    LET user == getUserByEmail(s, email)
    IN IF user = << >>
       THEN Return(Err("A user with email does not exist!"), s)
       ELSE IF user[1].password # password
       THEN Return(Err("Wrong password!"), [s EXCEPT !.currentUser = <<user[1]>>])
       ELSE Return(Ok("Successfully logged in!"), [s EXCEPT !.currentUser = <<user[1]>>])

loginUser(s, email, password) ==
    LET user == getUserByEmail(s, email)
    IN IF user = << >>
       THEN Return(Err("A user with email does not exist!"), s)
       ELSE IF user[1].password # password
       THEN Return(Err("Wrong password!"), s)
       ELSE Return(Ok("Successfully logged in!"), [s EXCEPT !.currentUser = <<user[1]>>])

\* logoutUser, had it not looked at currentUser first
logoutUser_NoCheck(s) ==
    Return(Ok("Successfully logged out!"), [s EXCEPT !.currentUser = << >>])

logoutUser(s) ==
    IF s.currentUser = << >>
    THEN Return(Err("No user is logged in!"), s)
    ELSE Return(Ok("Successfully logged out!"), [s EXCEPT !.currentUser = << >>])

\* ------------------------------------------------------------ movies
getMovies(s) == Return(Ok(Values(s.movieStorage)), s)

getMovieById(s, id) ==
    LET found == Get(s.movieStorage, id)
    IN IF found # << >>
       THEN Return(Ok(found[1]), s)
       ELSE Return(Err("A movie with id not found"), s)

\* getMovieByTitle, had it taken the last movie of the title
getMovieByTitle_Last(s, title) ==
    LET movie == SelectSeq(Values(s.movieStorage), LAMBDA m : m.title = title)
    IN IF movie = << >>
       THEN Return(Err("A movie with title not found"), s)
       ELSE Return(Ok(movie[Len(movie)]), s)

getMovieByTitle(s, title) ==
    LET movie == SelectSeq(Values(s.movieStorage), LAMBDA m : m.title = title)
    IN IF movie = << >>
       THEN Return(Err("A movie with title not found"), s)
       ELSE Return(Ok(movie[1]), s)

\* the payload check of createMovie and updateMovie
MissingFields(payload) ==
    \/ Falsy(payload.title)
    \/ Falsy(payload.description)
    \/ Falsy(payload.genre)
    \/ Falsy(payload.imageURL)
    \/ Falsy(payload.coverImageURL)

\* mid: the result of uuidv4(); t: ic.time()
createMovie(s, payload, mid, t) ==
    IF MissingFields(payload)
    THEN Return(Err("Missing required fields in payload"), s)
    ELSE LET movie == [id |-> mid, createdAt |-> t, updateAt |-> << >>,
                       title |-> payload.title, description |-> payload.description,
                       genre |-> payload.genre, imageURL |-> payload.imageURL,
                       coverImageURL |-> payload.coverImageURL]
         IN Return(Ok(movie), [s EXCEPT !.movieStorage = Insert(@, movie.id, movie)])

\* updateMovie, had it inserted the payload under an id it did not find
updateMovie_Upsert(s, id, payload, t) ==
    IF MissingFields(payload)
    THEN Return(Err("Missing required fields in payload"), s)
    ELSE LET found == Get(s.movieStorage, id)
             movie == IF found # << >> THEN found[1]
                      ELSE [id |-> id, createdAt |-> t, updateAt |-> << >>,
                            title |-> "", description |-> "", genre |-> "",
                            imageURL |-> "", coverImageURL |-> ""]
             newMovie == [movie EXCEPT !.title = payload.title,
                                       !.description = payload.description,
                                       !.genre = payload.genre,
                                       !.imageURL = payload.imageURL,
                                       !.coverImageURL = payload.coverImageURL,
                                       !.updateAt = <<t>>]
             stored == [s EXCEPT !.movieStorage = Insert(@, id, newMovie)]
         IN IF found # << >>
            THEN Return(Ok(newMovie), stored)
            ELSE Return(Err("A movie with id not found"), stored)

\* updateMovie, had it returned the record it read
updateMovie_ReturnsOld(s, id, payload, t) ==
    IF MissingFields(payload)
    THEN Return(Err("Missing required fields in payload"), s)
    ELSE LET found == Get(s.movieStorage, id)
         IN IF found # << >>
            THEN LET movie == found[1]
                     newMovie == [movie EXCEPT !.title = payload.title,
                                               !.description = payload.description,
                                               !.genre = payload.genre,
                                               !.imageURL = payload.imageURL,
                                               !.coverImageURL = payload.coverImageURL,
                                               !.updateAt = <<t>>]
                 IN Return(Ok(movie), [s EXCEPT !.movieStorage = Insert(@, id, newMovie)])
            ELSE Return(Err("A movie with id not found"), s)

\* t: ic.time()
updateMovie(s, id, payload, t) ==
    IF MissingFields(payload)
    THEN Return(Err("Missing required fields in payload"), s)
    ELSE LET found == Get(s.movieStorage, id)
         IN IF found # << >>
            THEN LET movie == found[1]
                     newMovie == [movie EXCEPT !.title = payload.title,
                                               !.description = payload.description,
                                               !.genre = payload.genre,
                                               !.imageURL = payload.imageURL,
                                               !.coverImageURL = payload.coverImageURL,
                                               !.updateAt = <<t>>]
                 IN Return(Ok(newMovie), [s EXCEPT !.movieStorage = Insert(@, id, newMovie)])
            ELSE Return(Err("A movie with id not found"), s)

\* the key under which deleteMovieFromWatchlists writes back the watchlist it
\* read under `key`
CascadeKey(key, watchlist) == watchlist.id

\* the forEach of deleteMovieFromWatchlists over the keys still to visit; the
\* values were read (values()) before the first insert
RECURSIVE CascadeFrom(_, _, _, _)
CascadeFrom(keys, snapshot, storage, id) ==
    IF keys = << >> THEN storage
    ELSE LET key == Head(keys)
             watchlist == [snapshot[key] EXCEPT
                              !.movies = SelectSeq(snapshot[key].movies, LAMBDA movieId : movieId # id)]
         IN CascadeFrom(Tail(keys), snapshot,
                        Insert(storage, CascadeKey(key, watchlist), watchlist), id)

deleteMovieFromWatchlists(storage, id) ==
    CascadeFrom(KeysInOrder(DOMAIN storage), storage, storage, id)

\* deleteMovie, had it read the movie (get) where it removes it
deleteMovie_Get(s, id) ==
    LET removed == Get(s.movieStorage, id)
    IN IF removed # << >>
       THEN Return(Ok(removed[1]),
                   [s EXCEPT !.userWatchlistStorage = deleteMovieFromWatchlists(@, id)])
       ELSE Return(Err("A movie with id not found"), s)

\* deleteMovie, had it run the cascade before it matched the removed record
deleteMovie_CascadeFirst(s, id) ==
    LET removed == Get(s.movieStorage, id)
        cascaded == [s EXCEPT !.userWatchlistStorage = deleteMovieFromWatchlists(@, id)]
    IN IF removed # << >>
       THEN Return(Ok(removed[1]), [cascaded EXCEPT !.movieStorage = Remove(@, id)])
       ELSE Return(Err("A movie with id not found"), cascaded)

deleteMovie(s, id) ==
    LET removed == Get(s.movieStorage, id)
    IN IF removed # << >>
       THEN Return(Ok(removed[1]),
                   [s EXCEPT !.movieStorage = Remove(@, id),
                             !.userWatchlistStorage = deleteMovieFromWatchlists(@, id)])
       ELSE Return(Err("A movie with id not found"), s)

\* ------------------------------------------------------------ watchlists
getWatchlist(s) ==
    IF s.currentUser = << >>
    THEN Return(Err("No user is logged in!"), s)
    ELSE LET found == Get(s.userWatchlistStorage, s.currentUser[1].id)
         IN IF found # << >>
            THEN Return(Ok(found[1]), s)
            ELSE Return(Err("A watchlist for user with id not found"), s)

\* addMovieToWatchlist, had it not looked for the id in the watchlist
addMovieToWatchlist_NoIncludesCheck(s, movieId) ==
    IF s.currentUser = << >>
    THEN Return(Err("No user is logged in!"), s)
    ELSE IF OptFalsy(Get(s.movieStorage, movieId))
    THEN Return(Err("A movie with id not found"), s)
    ELSE LET found == Get(s.userWatchlistStorage, s.currentUser[1].id)
         IN IF found = << >>
            THEN Return(Err("User's watchlist not found"), s)
            ELSE LET watchlist == [found[1] EXCEPT !.movies = Append(@, movieId)]
                 IN Return(Ok("Successfully added movie with id to watchlist"),
                           [s EXCEPT !.userWatchlistStorage =
                                         Insert(@, s.currentUser[1].id, watchlist)])

\* addMovieToWatchlist, had it stored the watchlist under the watchlist's id
addMovieToWatchlist_WatchlistKey(s, movieId) ==
    IF s.currentUser = << >>
    THEN Return(Err("No user is logged in!"), s)
    ELSE IF OptFalsy(Get(s.movieStorage, movieId))
    THEN Return(Err("A movie with id not found"), s)
    ELSE LET found == Get(s.userWatchlistStorage, s.currentUser[1].id)
         IN IF found = << >>
            THEN Return(Err("User's watchlist not found"), s)
            ELSE IF Includes(found[1].movies, movieId)
            THEN Return(Ok("Movie with id is already in the watchlist"), s)
            ELSE LET watchlist == [found[1] EXCEPT !.movies = Append(@, movieId)]
                 IN Return(Ok("Successfully added movie with id to watchlist"),
                           [s EXCEPT !.userWatchlistStorage =
                                         Insert(@, watchlist.id, watchlist)])

\* addMovieToWatchlist, had it put the id in front (unshift) of the list
addMovieToWatchlist_Unshift(s, movieId) ==
    IF s.currentUser = << >>
    THEN Return(Err("No user is logged in!"), s)
    ELSE IF OptFalsy(Get(s.movieStorage, movieId))
    THEN Return(Err("A movie with id not found"), s)
    ELSE LET found == Get(s.userWatchlistStorage, s.currentUser[1].id)
         IN IF found = << >>
            THEN Return(Err("User's watchlist not found"), s)
            ELSE IF Includes(found[1].movies, movieId)
            THEN Return(Ok("Movie with id is already in the watchlist"), s)
            ELSE LET watchlist == [found[1] EXCEPT !.movies = <<movieId>> \o @]
                 IN Return(Ok("Successfully added movie with id to watchlist"),
                           [s EXCEPT !.userWatchlistStorage =
                                         Insert(@, s.currentUser[1].id, watchlist)])

addMovieToWatchlist(s, movieId) ==
    IF s.currentUser = << >>
    THEN Return(Err("No user is logged in!"), s)
    ELSE IF OptFalsy(Get(s.movieStorage, movieId))
    THEN Return(Err("A movie with id not found"), s)
    ELSE LET found == Get(s.userWatchlistStorage, s.currentUser[1].id)
         IN IF found = << >>
            THEN Return(Err("User's watchlist not found"), s)
            ELSE IF Includes(found[1].movies, movieId)
            THEN Return(Ok("Movie with id is already in the watchlist"), s)
            ELSE LET watchlist == [found[1] EXCEPT !.movies = Append(@, movieId)]
                 IN Return(Ok("Successfully added movie with id to watchlist"),
                           [s EXCEPT !.userWatchlistStorage =
                                         Insert(@, s.currentUser[1].id, watchlist)])

\* removeMovieFromWatchlist, had it not looked for the id in the watchlist
removeMovieFromWatchlist_NoIncludesCheck(s, movieId) ==
    IF s.currentUser = << >>
    THEN Return(Err("No user is logged in!"), s)
    ELSE IF OptFalsy(Get(s.movieStorage, movieId))
    THEN Return(Err("A movie with id not found"), s)
    ELSE LET found == Get(s.userWatchlistStorage, s.currentUser[1].id)
         IN IF found = << >>
            THEN Return(Ok(""), s)
            ELSE LET watchlist == [found[1] EXCEPT
                                      !.movies = SelectSeq(@, LAMBDA id : id # movieId)]
                 IN Return(Ok("Successfully removed movie with id from watchlist"),
                           [s EXCEPT !.userWatchlistStorage =
                                         Insert(@, s.currentUser[1].id, watchlist)])

removeMovieFromWatchlist(s, movieId) ==
    IF s.currentUser = << >>
    THEN Return(Err("No user is logged in!"), s)
    ELSE IF OptFalsy(Get(s.movieStorage, movieId))
    THEN Return(Err("A movie with id not found"), s)
    ELSE LET found == Get(s.userWatchlistStorage, s.currentUser[1].id)
         IN IF found = << >>
            THEN Return(Ok(""), s)
            ELSE IF ~Includes(found[1].movies, movieId)
            THEN Return(Ok("Movie with id is not in the watchlist"), s)
            ELSE LET watchlist == [found[1] EXCEPT
                                      !.movies = SelectSeq(@, LAMBDA id : id # movieId)]
                 IN Return(Ok("Successfully removed movie with id from watchlist"),
                           [s EXCEPT !.userWatchlistStorage =
                                         Insert(@, s.currentUser[1].id, watchlist)])

\* ------------------------------------------------------------ actions
Init ==
    /\ movieStorage = EmptyMap
    /\ userStorage = EmptyMap
    /\ userWatchlistStorage = EmptyMap
    /\ currentUser = << >>
    /\ issued = {}
    /\ now = 1

\* the canister is left in the state a call returns
Becomes(s) ==
    /\ movieStorage' = s.movieStorage
    /\ userStorage' = s.userStorage
    /\ userWatchlistStorage' = s.userWatchlistStorage
    /\ currentUser' = s.currentUser

\* ic.time() does not decrease between calls
Tick ==
    /\ now < MaxTime
    /\ now' = now + 1
    /\ UNCHANGED <<movieStorage, userStorage, userWatchlistStorage, currentUser, issued>>

\* the id strings a caller passes: every id createMovie has returned and a
\* string that was never the id of a movie
MovieIds == issued \cap MovieUuids

IdArgs == MovieIds \cup {BogusId}

\* no stored watchlist is longer than MaxWatchlist
WithinMaxWatchlist(storage) ==
    \A k \in DOMAIN storage : Len(storage[k].movies) <= MaxWatchlist

\* The two uuidv4() results of one createUser: the two lowest unissued user
\* uuids, in either order.  The key order of a user's id and its watchlist's id
\* is the only order among these ids that a function's outcome depends on (the
\* forEach of deleteMovieFromWatchlists writes both entries to the same key).
FreshUserUuids ==
    LET free == UserUuids \ issued
    IN {x \in free : Cardinality({y \in free : y < x}) < 2}

\* (a call is left out when uuidv4 has no strings left for it)
CallCreateUser(payload) ==
    /\ Cardinality(issued) + 2 <= MaxUuid
    /\ \E uid \in FreshUserUuids : \E wid \in FreshUserUuids \ {uid} :
        LET r == createUser(State, payload, uid, wid, now)
        IN /\ Becomes(r.state)
           /\ issued' = IF r.res.tag = "Ok" THEN issued \cup {uid, wid} ELSE issued
           /\ UNCHANGED now

CallLoginUser(email, password) ==
    /\ Becomes(loginUser(State, email, password).state)
    /\ UNCHANGED <<issued, now>>

CallLogoutUser ==
    /\ Becomes(logoutUser(State).state)
    /\ UNCHANGED <<issued, now>>

CallGetMovies ==
    /\ Becomes(getMovies(State).state)
    /\ UNCHANGED <<issued, now>>

CallGetMovieById(id) ==
    /\ Becomes(getMovieById(State, id).state)
    /\ UNCHANGED <<issued, now>>

CallGetMovieByTitle(title) ==
    /\ Becomes(getMovieByTitle(State, title).state)
    /\ UNCHANGED <<issued, now>>

CallCreateMovie(payload) ==
    /\ Cardinality(issued) + 1 <= MaxUuid
    /\ \E mid \in MovieUuids \ issued :
        LET r == createMovie(State, payload, mid, now)
        IN /\ Becomes(r.state)
           /\ issued' = IF r.res.tag = "Ok" THEN issued \cup {mid} ELSE issued
           /\ UNCHANGED now

CallUpdateMovie(id, payload) ==
    /\ Becomes(updateMovie(State, id, payload, now).state)
    /\ UNCHANGED <<issued, now>>

CallDeleteMovie(id) ==
    /\ Becomes(deleteMovie(State, id).state)
    /\ UNCHANGED <<issued, now>>

CallGetWatchlist ==
    /\ Becomes(getWatchlist(State).state)
    /\ UNCHANGED <<issued, now>>

CallAddMovieToWatchlist(movieId) ==
    LET r == addMovieToWatchlist(State, movieId)
    IN /\ WithinMaxWatchlist(r.state.userWatchlistStorage)
       /\ Becomes(r.state)
       /\ UNCHANGED <<issued, now>>

CallRemoveMovieFromWatchlist(movieId) ==
    /\ Becomes(removeMovieFromWatchlist(State, movieId).state)
    /\ UNCHANGED <<issued, now>>

\* ------------------------------------------------------------ specification
\* the canister methods ($query / $update) the host can invoke
Next ==
    \/ \E payload \in UserPayloads : CallCreateUser(payload)
    \/ \E email \in Emails, password \in Passwords : CallLoginUser(email, password)
    \/ CallGetMovies
    \/ \E id \in IdArgs : CallGetMovieById(id)
    \/ \E title \in Titles : CallGetMovieByTitle(title)
    \/ \E payload \in MoviePayloads : CallCreateMovie(payload)
    \/ \E id \in IdArgs, payload \in MoviePayloads : CallUpdateMovie(id, payload)
    \/ \E id \in IdArgs : CallDeleteMovie(id)
    \/ CallGetWatchlist
    \/ \E movieId \in IdArgs : CallAddMovieToWatchlist(movieId)
    \/ \E movieId \in IdArgs : CallRemoveMovieFromWatchlist(movieId)
    \/ Tick

Spec == Init /\ [][Next]_vars

\* every exported function called directly: the canister methods and logoutUser,
\* which carries no $query / $update annotation
NextExported ==
    \/ Next
    \/ CallLogoutUser

SpecExported == Init /\ [][NextExported]_vars

\* The movie functions alone, on a canister no user was created in: the
\* catalogue grows to MaxCatalog movies.
CatalogIdArgs == (issued \cap CatalogUuids) \cup {BogusId}

CatalogCreateMovie(payload) ==
    \E mid \in CatalogUuids \ issued :
        LET r == createMovie(State, payload, mid, now)
        IN /\ Becomes(r.state)
           /\ issued' = IF r.res.tag = "Ok" THEN issued \cup {mid} ELSE issued
           /\ UNCHANGED now

NextCatalog ==
    \/ \E payload \in MoviePayloads : CatalogCreateMovie(payload)
    \/ CallGetMovies
    \/ \E id \in CatalogIdArgs : CallGetMovieById(id)
    \/ \E title \in Titles : CallGetMovieByTitle(title)
    \/ \E id \in CatalogIdArgs : \E payload \in MoviePayloads : CallUpdateMovie(id, payload)
    \/ \E id \in CatalogIdArgs : CallDeleteMovie(id)
    \/ Tick

SpecCatalog == Init /\ [][NextCatalog]_vars

\* ------------------------------------------------------------ properties
\* the movie ids of the watchlist stored under key k
MoviesOf(storage, k) == storage[k].movies

\* how often x occurs in seq
Count(seq, x) == Cardinality({i \in 1..Len(seq) : seq[i] = x})

\* the arguments the properties range over
PayloadArgs == [name : {"", "Joan"}, email : Emails, password : {"", "pw"}]

NoSession == Err("No user is logged in!")
MovieNotFound == Err("A movie with id not found")

\* C1: after a successful deleteMovie(id), no watchlist stored in
\* userWatchlistStorage contains id.
C1_DeleteCascades ==
    [][\A id \in IdArgs :
          (CallDeleteMovie(id) /\ deleteMovie(State, id).res.tag = "Ok")
              => \A k \in DOMAIN userWatchlistStorage' :
                    ~Includes(MoviesOf(userWatchlistStorage', k), id)]_vars

\* C2: every movie id in a stored watchlist is the id of a movie in movieStorage.
C2_NoDanglingIds ==
    \A k \in DOMAIN userWatchlistStorage :
        \A i \in 1..Len(MoviesOf(userWatchlistStorage, k)) :
            MoviesOf(userWatchlistStorage, k)[i] \in DOMAIN movieStorage

\* C3: with a session, addMovieToWatchlist(m) and removeMovieFromWatchlist(m) for
\* an m that is no movie's id return the NotFound error and change nothing.
C3_UnknownMovieNotFound ==
    currentUser # << >> =>
        \A m \in IdArgs \ DOMAIN movieStorage :
            /\ addMovieToWatchlist(State, m) = Return(MovieNotFound, State)
            /\ removeMovieFromWatchlist(State, m) = Return(MovieNotFound, State)

\* C4: the keys of userWatchlistStorage are exactly the ids of the users in
\* userStorage.
C4_OneWatchlistPerUser ==
    DOMAIN userWatchlistStorage = DOMAIN userStorage

\* C5: no two distinct records of userStorage have the same email.
C5_EmailUnique ==
    \A k1, k2 \in DOMAIN userStorage :
        k1 # k2 => userStorage[k1].email # userStorage[k2].email

C5_Witness ==
    Cardinality(DOMAIN userStorage) = 2

\* C6: createUser with the email of an existing user returns an error and leaves
\* the state as it was, whatever ids uuidv4 would have returned; the error is
\* the Conflict error when the payload's name and password are not empty.
C6_ConflictCreatesNothing ==
    \A payload \in PayloadArgs :
        (\E k \in DOMAIN userStorage : userStorage[k].email = payload.email) =>
            \A uid \in UserUuids :
                LET wid == CHOOSE w \in UserUuids : w # uid
                    r == createUser(State, payload, uid, wid, now)
                IN /\ r.res.tag = "Err"
                   /\ r.state = State
                   /\ (payload.name # "" /\ payload.password # "")
                         => r.res = Err("A user with email already exists!")

\* a user exists whose watchlist is not empty, and a movie is stored
C6_Witness ==
    /\ movieStorage # EmptyMap
    /\ \E k \in DOMAIN userStorage : MoviesOf(userWatchlistStorage, k) # << >>

\* C7: with no session, getWatchlist, addMovieToWatchlist, removeMovieFromWatchlist
\* and logoutUser each return the Unauthorized error and change nothing.
C7_SessionGating ==
    currentUser = << >> =>
        /\ getWatchlist(State) = Return(NoSession, State)
        /\ logoutUser(State) = Return(NoSession, State)
        /\ \A m \in IdArgs :
              /\ addMovieToWatchlist(State, m) = Return(NoSession, State)
              /\ removeMovieFromWatchlist(State, m) = Return(NoSession, State)

\* no session, after a user was logged in (and filled a watchlist) and logged out
C7_Witness ==
    /\ currentUser = << >>
    /\ movieStorage # EmptyMap
    /\ \E k \in DOMAIN userStorage : MoviesOf(userWatchlistStorage, k) # << >>

\* C8: loginUser returns NotFound when no user has the email and Unauthorized
\* when the password differs, and leaves the state (the session with it) as it
\* was; with the email and password of a user it sets the session to that user.
C8_LoginOutcomes ==
    \A email \in Emails \cup {""}, password \in Passwords \cup {""} :
        LET r == loginUser(State, email, password)
            known == {k \in DOMAIN userStorage : userStorage[k].email = email}
        IN /\ known = {} => r = Return(Err("A user with email does not exist!"), State)
           /\ \A k \in known :
                 IF userStorage[k].password = password
                 THEN /\ r.res = Ok("Successfully logged in!")
                      /\ r.state = [State EXCEPT !.currentUser = <<userStorage[k]>>]
                 ELSE r = Return(Err("Wrong password!"), State)

\* a user is logged in and another user exists, so a failed login of either
\* would have a session to keep
C8_Witness ==
    /\ currentUser # << >>
    /\ \E k \in DOMAIN userStorage : userStorage[k] # currentUser[1]

\* users are never removed and never change
UsersKept ==
    \A k \in DOMAIN userStorage :
        k \in DOMAIN userStorage' /\ userStorage'[k] = userStorage[k]

\* every stored user can log in with its email and password, which makes it the
\* session's user, and is stored under its own id, a string uuidv4 returned
UsersCanLogin ==
    \A k \in DOMAIN userStorage :
        LET user == userStorage[k]
            r == loginUser(State, user.email, user.password)
        IN /\ r.res = Ok("Successfully logged in!")
           /\ r.state.currentUser = <<user>>
           /\ user.id = k
           /\ user.id \in UserUuids \cap issued

\* C9: once createUser has stored a user, the user stays as stored, and in every
\* later state loginUser with its email and password succeeds and sets the
\* session to it; its id is a uuid, distinct from every other user's.
C9_CreatedUserCanLogin ==
    []UsersCanLogin /\ [][UsersKept]_vars

\* two users exist, one is logged in and has filled its watchlist since
C9_Witness ==
    /\ Cardinality(DOMAIN userStorage) = 2
    /\ currentUser # << >>
    /\ MoviesOf(userWatchlistStorage, currentUser[1].id) # << >>

\* C10: for a logged-in user and an existing movie m, a second
\* addMovieToWatchlist(m) right after the first returns the success 'already in
\* the watchlist', leaves the state the first call left, and the watchlist
\* holds m exactly once.
C10_AddIdempotent ==
    currentUser # << >> =>
        \A m \in DOMAIN movieStorage :
            LET first == addMovieToWatchlist(State, m)
                second == addMovieToWatchlist(first.state, m)
            IN /\ first.res.tag = "Ok"
               /\ second.res = Ok("Movie with id is already in the watchlist")
               /\ second.state = first.state
               /\ Count(MoviesOf(second.state.userWatchlistStorage, currentUser[1].id), m) = 1

\* the logged-in user has added an existing movie to a watchlist that held
\* another id already
C10_Witness ==
    /\ currentUser # << >>
    /\ \E m \in DOMAIN movieStorage :
          LET movies == MoviesOf(userWatchlistStorage, currentUser[1].id)
          IN Len(movies) = 2 /\ movies[2] = m

\* C11: in every reachable state, every stored watchlist holds each movie id at
\* most once.
C11_NoDuplicates ==
    \A k \in DOMAIN userWatchlistStorage :
        LET movies == MoviesOf(userWatchlistStorage, k)
        IN \A i, j \in 1..Len(movies) : movies[i] = movies[j] => i = j

\* a watchlist of two ids is stored, and deleteMovieFromWatchlists has written
\* a watchlist of its own
C11_Witness ==
    /\ \E k \in DOMAIN userWatchlistStorage : Len(MoviesOf(userWatchlistStorage, k)) = 2
    /\ \E k \in DOMAIN userWatchlistStorage :
          k \notin DOMAIN userStorage /\ MoviesOf(userWatchlistStorage, k) # << >>

\* C12: for a logged-in user and a stored movie m that is not in the user's
\* watchlist, removeMovieFromWatchlist(m) returns the success 'not in the
\* watchlist' and leaves the whole state as it was.
C12_RemoveAbsent ==
    currentUser # << >> =>
        LET found == Get(userWatchlistStorage, currentUser[1].id)
        IN /\ found # << >>
           /\ \A m \in DOMAIN movieStorage :
                 ~Includes(found[1].movies, m) =>
                     removeMovieFromWatchlist(State, m) =
                         Return(Ok("Movie with id is not in the watchlist"), State)

\* the logged-in user's watchlist is not empty and lacks a stored movie
C12_Witness ==
    /\ currentUser # << >>
    /\ MoviesOf(userWatchlistStorage, currentUser[1].id) # << >>
    /\ \E m \in DOMAIN movieStorage :
          ~Includes(MoviesOf(userWatchlistStorage, currentUser[1].id), m)

\* C13: when addMovieToWatchlist(m) of a logged-in user returns 'Successfully
\* added', the getWatchlist that follows returns the user's watchlist as
\* getWatchlist returned it before, with m appended as its last element.
C13_AddAppends ==
    currentUser # << >> =>
        \A m \in IdArgs :
            LET before == getWatchlist(State)
                added == addMovieToWatchlist(State, m)
                after == getWatchlist(added.state)
            IN added.res = Ok("Successfully added movie with id to watchlist") =>
                  /\ before.res.tag = "Ok"
                  /\ after.res = Ok([before.res.val EXCEPT !.movies = Append(@, m)])
                  /\ after.state = added.state

\* the logged-in user has added an id to a watchlist that held a stored movie
C13_Witness ==
    /\ currentUser # << >>
    /\ LET movies == MoviesOf(userWatchlistStorage, currentUser[1].id)
       IN Len(movies) = 2 /\ movies[1] \in DOMAIN movieStorage /\ movies[2] = BogusId

\* the three stores of a state
StoresOf(s) == <<s.userStorage, s.movieStorage, s.userWatchlistStorage>>

\* a call that returned r from the current state either succeeded or left the
\* three stores as they were
FailsClean(r) == r.res.tag = "Err" => StoresOf(r.state) = StoresOf(State)

\* two strings for the uuidv4() calls of a createUser that returns an error:
\* createUser calls uuidv4 only after its last error return, so a failing call
\* reads neither
UuidArgs == <<MaxUserUuid - 1, MaxUserUuid>>

\* in the current state, every call of any function that returns an error
\* leaves userStorage, movieStorage and userWatchlistStorage as they are, and
\* updateMovie with a valid payload and an id of no stored movie returns the
\* NotFound error and stores nothing
ErrorsChangeNothing ==
    /\ \A payload \in PayloadArgs :
          FailsClean(createUser(State, payload, UuidArgs[1], UuidArgs[2], now))
    /\ \A email \in Emails \cup {""}, password \in Passwords \cup {""} :
          FailsClean(loginUser(State, email, password))
    /\ FailsClean(logoutUser(State))
    /\ FailsClean(getMovies(State))
    /\ FailsClean(getWatchlist(State))
    /\ \A title \in Titles : FailsClean(getMovieByTitle(State, title))
    /\ \A payload \in MoviePayloads : \A mid \in MovieUuids :
          FailsClean(createMovie(State, payload, mid, now))
    /\ \A id \in IdArgs :
          /\ FailsClean(getMovieById(State, id))
          /\ FailsClean(deleteMovie(State, id))
          /\ FailsClean(addMovieToWatchlist(State, id))
          /\ FailsClean(removeMovieFromWatchlist(State, id))
          /\ \A payload \in MoviePayloads :
                LET r == updateMovie(State, id, payload, now)
                IN /\ FailsClean(r)
                   /\ (id \notin DOMAIN movieStorage /\ ~MissingFields(payload))
                         => r = Return(MovieNotFound, State)

\* C14: in every reachable state, every call of any function that returns an
\* error leaves userStorage, movieStorage and userWatchlistStorage as they were
\* before the call; updateMovie with a valid payload and an id of no stored
\* movie returns the NotFound error and stores nothing.
C14_ErrorsChangeNothing == []ErrorsChangeNothing

\* a user is logged in and a movie has been deleted, so its id is an id that
\* updateMovie does not find
C14_Witness ==
    /\ currentUser # << >>
    /\ MovieIds \ DOMAIN movieStorage # {}

\* C15: deleteMovie(id) of a stored movie returns the record stored under id as
\* it is then, updates included, and removes it and nothing else from
\* movieStorage, so that the getMovieById(id) that follows returns the
\* NotFound error; deleteMovie(id) of an id of no stored movie returns the
\* NotFound error and changes nothing.
C15_DeleteReturnsStored ==
    \A id \in IdArgs :
        LET r == deleteMovie(State, id)
        IN IF id \in DOMAIN movieStorage
           THEN /\ r.res = Ok(movieStorage[id])
                /\ DOMAIN r.state.movieStorage = DOMAIN movieStorage \ {id}
                /\ \A k \in DOMAIN r.state.movieStorage :
                      r.state.movieStorage[k] = movieStorage[k]
                /\ getMovieById(r.state, id) = Return(MovieNotFound, r.state)
           ELSE r = Return(MovieNotFound, State)

\* a stored movie was updated and is in a watchlist
C15_Witness ==
    \E id \in DOMAIN movieStorage :
        /\ movieStorage[id].updateAt # << >>
        /\ \E k \in DOMAIN userWatchlistStorage :
              Includes(MoviesOf(userWatchlistStorage, k), id)

\* C16: updateMovie(id, payload) of a stored movie with a valid payload stores
\* under id the record with the payload's fields, the id and createdAt of the
\* record before and updateAt set to the time of the call, changes nothing
\* else, and returns that new record; the getMovieById(id) that follows
\* returns it as well.
C16_UpdateStoresNew ==
    \A id \in DOMAIN movieStorage : \A payload \in MoviePayloads :
        ~MissingFields(payload) =>
            LET old == movieStorage[id]
                new == [id |-> id, createdAt |-> old.createdAt, updateAt |-> <<now>>,
                        title |-> payload.title, description |-> payload.description,
                        genre |-> payload.genre, imageURL |-> payload.imageURL,
                        coverImageURL |-> payload.coverImageURL]
                r == updateMovie(State, id, payload, now)
            IN /\ old.id = id
               /\ r.res = Ok(new)
               /\ r.state = [State EXCEPT !.movieStorage = [@ EXCEPT ![id] = new]]
               /\ getMovieById(r.state, id).res = Ok(new)

\* a stored movie was updated, later than it was created, to another title
C16_Witness ==
    \E id \in DOMAIN movieStorage :
        /\ movieStorage[id].updateAt = <<MaxTime>>
        /\ movieStorage[id].createdAt < MaxTime
        /\ movieStorage[id].title = "B"

\* a string that is empty or consists of whitespace only, among the strings of
\* MoviePayloadArgs
Blank(s) == s \in {"", " "}

\* createMovie payloads with empty, whitespace-only and filled fields
MoviePayloadArgs ==
    [title : {"", " ", "A"}, description : {"", " ", "d"}, genre : {" ", "g"},
     imageURL : {"", "i"}, coverImageURL : {"", " ", "c"}]

\* C17: createMovie returns the validation error and stores nothing whenever
\* one of title, description, genre, imageURL, coverImageURL is empty or
\* whitespace only, and succeeds otherwise.
C17_BlankFieldsRejected ==
    \A payload \in MoviePayloadArgs : \A mid \in MovieUuids :
        LET r == createMovie(State, payload, mid, now)
        IN IF \/ Blank(payload.title) \/ Blank(payload.description) \/ Blank(payload.genre)
              \/ Blank(payload.imageURL) \/ Blank(payload.coverImageURL)
           THEN /\ r.res.tag = "Err"
                /\ r.res = Err("Missing required fields in payload")
                /\ r.state = State
           ELSE r.res.tag = "Ok"

\* the payload of the README's createMovie call: imageURL and coverImageURL
\* are empty
ReadmeMoviePayload ==
    [title |-> "A", description |-> "d", genre |-> "g", imageURL |-> "", coverImageURL |-> ""]

\* C18: createMovie with the README's payload (title, description and genre
\* filled, imageURL and coverImageURL empty) returns Ok with a movie that has
\* the generated id and no updateAt, and the logged-in user can then add that
\* id to the watchlist.
C18_ReadmeCreateMovie ==
    \A mid \in MovieUuids \ issued :
        LET r == createMovie(State, ReadmeMoviePayload, mid, now)
        IN /\ r.res.tag = "Ok"
           /\ r.res.val.id = mid
           /\ r.res.val.updateAt = << >>
           /\ currentUser # << >> =>
                 addMovieToWatchlist(r.state, mid).res =
                     Ok("Successfully added movie with id to watchlist")

\* C19: in every reachable state with a session, a call of a canister method
\* can leave the canister without a session (logoutUser is one of the methods).
C19_HostCanLogout ==
    currentUser # << >> => ENABLED (Next /\ currentUser' = << >>)

\* a step that changes movieStorage or userWatchlistStorage and is a step of
\* deleteMovie(id)
DeleteMovieChanges(id) ==
    /\ issued' = issued /\ now' = now
    /\ movieStorage' # movieStorage \/ userWatchlistStorage' # userWatchlistStorage
    /\ CallDeleteMovie(id)

\* C20: a deleteMovie(id) step changes movieStorage or userWatchlistStorage only
\* when the movie was stored; it then leaves, in that one step, id out of
\* movieStorage and userWatchlistStorage as one run of
\* deleteMovieFromWatchlists(id) on the storage before leaves it.  A
\* deleteMovie(id) step that returns the NotFound error changes neither.
C20_CascadeWithDelete ==
    [][\A id \in IdArgs :
          DeleteMovieChanges(id) =>
              /\ id \in DOMAIN movieStorage
              /\ id \notin DOMAIN movieStorage'
              /\ userWatchlistStorage' = deleteMovieFromWatchlists(userWatchlistStorage, id)]_vars

\* every movie created has been deleted, and deleteMovieFromWatchlists has
\* written a watchlist
C20_Witness ==
    /\ MovieIds # {}
    /\ movieStorage = EmptyMap
    /\ \E k \in DOMAIN userWatchlistStorage : k \notin DOMAIN userStorage

\* a call that returned r from state s changed at most the watchlist stored
\* under the id of the user of s's session
OnlyOwnWatchlist(s, r) ==
    /\ r.state.userStorage = s.userStorage
    /\ r.state.movieStorage = s.movieStorage
    /\ r.state.currentUser = s.currentUser
    /\ DOMAIN r.state.userWatchlistStorage = DOMAIN s.userWatchlistStorage
    /\ \A k \in DOMAIN s.userWatchlistStorage \ {s.currentUser[1].id} :
          r.state.userWatchlistStorage[k] = s.userWatchlistStorage[k]

\* in the current state: with a session, addMovieToWatchlist and
\* removeMovieFromWatchlist change at most the watchlist stored under the id of
\* the session's user; a loginUser of any other stored user B leaves B alone in
\* the session and changes no store, and the calls that follow change at most
\* the watchlist stored under B's id
OnlyOwnWatchlists ==
    /\ currentUser # << >> =>
          \A m \in IdArgs :
              /\ OnlyOwnWatchlist(State, addMovieToWatchlist(State, m))
              /\ OnlyOwnWatchlist(State, removeMovieFromWatchlist(State, m))
    /\ \A b \in DOMAIN userStorage :
          <<userStorage[b]>> # currentUser =>
              LET B == userStorage[b]
                  login == loginUser(State, B.email, B.password)
              IN /\ login.state = [State EXCEPT !.currentUser = <<B>>]
                 /\ \A m \in IdArgs :
                       /\ OnlyOwnWatchlist(login.state, addMovieToWatchlist(login.state, m))
                       /\ OnlyOwnWatchlist(login.state, removeMovieFromWatchlist(login.state, m))

\* C21: in every reachable state, addMovieToWatchlist and
\* removeMovieFromWatchlist change at most the watchlist stored under the id of
\* the session's user: every other watchlist, userStorage, movieStorage and the
\* session stay as they were; this is so as well after another user B has
\* logged in, whoever was logged in before: the session then holds B alone and
\* the calls change at most the watchlist stored under B's id.
C21_OnlyOwnWatchlist == []OnlyOwnWatchlists

\* two users have each added an id to their own watchlist, the second after
\* logging in while the first was logged in
C21_Witness ==
    /\ currentUser # << >>
    /\ Cardinality(DOMAIN userStorage) = 2
    /\ \A k \in DOMAIN userStorage : MoviesOf(userWatchlistStorage, k) # << >>

\* the user of the session, if there is one, is a record of userStorage stored
\* under its id, a watchlist is stored under that id, and getWatchlist returns
\* Ok with that watchlist
SessionUserStored ==
    currentUser # << >> =>
        LET user == currentUser[1]
        IN /\ user.id \in DOMAIN userStorage
           /\ userStorage[user.id] = user
           /\ user.id \in DOMAIN userWatchlistStorage
           /\ getWatchlist(State) = Return(Ok(userWatchlistStorage[user.id]), State)

\* C22: in every reachable state with a session, the session's user is a record
\* of userStorage, stored under its id, a watchlist is stored under that id,
\* and getWatchlist returns Ok with that watchlist, never the NotFound error.
C22_SessionUserStored == []SessionUserStored

\* there is a session, and deleteMovieFromWatchlists has written the watchlist
\* of the session's user under the watchlist's id
C22_Witness ==
    /\ currentUser # << >>
    /\ userWatchlistStorage[currentUser[1].id].id \in DOMAIN userWatchlistStorage

\* C23: getMovieByTitle(title) returns the movie of the lowest key among the
\* stored movies whose title is title, returns the NotFound error when there is
\* none (the empty title included), and changes nothing; createMovie with a
\* valid payload succeeds whatever titles are stored and keeps the movies that
\* are.
C23_FirstByTitle ==
    /\ \A title \in Titles \cup {"Z"} :
          LET r == getMovieByTitle(State, title)
              keys == {k \in DOMAIN movieStorage : movieStorage[k].title = title}
          IN /\ r.state = State
             /\ IF keys = {}
                THEN r.res.tag = "Err" /\ r.res = Err("A movie with title not found")
                ELSE /\ r.res.tag = "Ok"
                     /\ r.res.val = movieStorage[CHOOSE k \in keys : \A j \in keys : k <= j]
    /\ \A payload \in MoviePayloads : \A mid \in CatalogUuids \ issued :
          ~MissingFields(payload) =>
              LET r == createMovie(State, payload, mid, now)
              IN /\ r.res.tag = "Ok"
                 /\ DOMAIN r.state.movieStorage = DOMAIN movieStorage \cup {mid}
                 /\ r.state.movieStorage[mid].title = payload.title
                 /\ \A k \in DOMAIN movieStorage : r.state.movieStorage[k] = movieStorage[k]

\* two movies of one title are stored, the one of the higher key created first
C23_Witness ==
    \E k1, k2 \in DOMAIN movieStorage :
        /\ k1 < k2
        /\ movieStorage[k1].title = movieStorage[k2].title
        /\ movieStorage[k2].createdAt < movieStorage[k1].createdAt

====
